---- MODULE Spec2Model ----
(***************************************************************************)
(* Model of the CPQ frontend: the zod request schema (validation.ts and    *)
(* its second copy, unnamed/part_001), the request function postQuote      *)
(* (api.ts) and the submit handler and render of the form (App.tsx,        *)
(* FormPrimitives.tsx).                                                    *)
(*                                                                         *)
(* The parser accepts ASCII only, so the Cyrillic literals of the source   *)
(* are written in Latin transliteration; they are opaque labels.           *)
(*                                                                         *)
(* Left out: the click handler of the download link, which only appends    *)
(* the event 'cpq_pdf_link_click' to window.dataLayer.                     *)
(***************************************************************************)
EXTENDS Integers, Sequences, FiniteSets, TLC

(***************************************************************************)
(* JavaScript values.  A select value or enum member is a string held as a *)
(* TLA+ string; the text of a free text input is a string held as a        *)
(* sequence of one-character strings, so that the regular expressions can  *)
(* be evaluated on it.  A number is floor + half/2 (half is 0 or 1), which *)
(* is enough to tell integers from non-integers; NaN is its own value, as  *)
(* zod's getParsedType tells it from a number.                             *)
(***************************************************************************)
Undefined == [t |-> "undefined"]
NaN == [t |-> "nan"]
Null == [t |-> "null"]
Str(s) == [t |-> "string", s |-> s]
Num(n) == [t |-> "number", floor |-> n, half |-> 0]
NumAndHalf(n) == [t |-> "number", floor |-> n, half |-> 1]

IsString(v) == v.t = "string"
IsNumber(v) == v.t = "number"
IsEmptyString(v) == IsString(v) /\ Len(v.s) = 0
IsInteger(v) == IsNumber(v) /\ v.half = 0
\* v >= n and v <= n for a number v and an integer n
Geq(v, n) == v.floor >= n
Leq(v, n) == v.floor < n \/ (v.floor = n /\ v.half = 0)

(***************************************************************************)
(* Character classes of the regular expressions.                           *)
(***************************************************************************)
Letters == {"a", "b", "c", "d", "e", "i", "l", "m", "o", "p", "s", "t", "v", "x", "A", "Z"}
Digits == {"0", "1", "2", "3", "4", "5", "6", "7", "8", "9"}
WhiteSpace == {" "}
\* [^\s@]
NotSpaceNotAt(c) == c \notin WhiteSpace /\ c # "@"
\* [a-zA-Z0-9_]
WordChar(c) == c \in Letters \/ c \in Digits \/ c = "_"
AlphaNum(c) == c \in Letters \/ c \in Digits
IsLetter(c) == c \in Letters

(***************************************************************************)
(* Bounds of the checked inputs.                                           *)
(***************************************************************************)
MaxEmailLen == 5
MaxTgLen == 6
MaxSubmits == 2

(***************************************************************************)
(* validation.ts                                                           *)
(***************************************************************************)
fefcoOptions == {"0201", "0203", "0427", "0471", "0501"}
\* "T23 Kraft", "Mikrogofrokarton Kraft", "Mikrogofrokarton Belyj"
materialOptions == {"T23 Kraft", "Mikrogofrokarton Kraft", "Mikrogofrokarton Belyj"}
\* the first option is "bez pechati" (no print)
printOptions == {"bez pechati", "1+0", "2+0", "4+0", "4+4"}
\* "standart", "srochno", "ekonom"
slaOptions == {"standart", "srochno", "ekonom"}

MinDim == 20
MaxDim == 1200
MinQty == 1
MaxQty == 100000
MaxCompanyLen == 120
MaxNameLen == 80

\* the outcome of parsing one value: ok, and the output value
Valid(v) == [ok |-> TRUE, value |-> v]
Invalid == [ok |-> FALSE, value |-> Undefined]

\* z.enum(options): a string that is one of the options
ZEnum(options, v) == IF IsString(v) /\ v.s \in options THEN Valid(v) ELSE Invalid

\* z.number(): a number, not NaN, not undefined
ZNumber(v) == IsNumber(v)

\* z.string()
ZString(v) == IF IsString(v) THEN Valid(v) ELSE Invalid

\* z.string().max(n)
ZStringMax(n, v) == IF IsString(v) /\ Len(v.s) <= n THEN Valid(v) ELSE Invalid

\* schema.optional(): undefined passes as undefined, anything else goes to the schema
ZOptional(r, v) == IF v = Undefined THEN Valid(Undefined) ELSE r

\* schema.or(z.literal('').transform(() => undefined)): the first valid option
\* of the union is the result
OrEmptyToUndefined(r, v) ==
    IF r.ok THEN r
    ELSE IF IsEmptyString(v) THEN Valid(Undefined)
    ELSE Invalid

\* z.number(...).int().min(lo).max(hi): every check is run, one failure rejects
ZNumberIntMinMax(lo, hi, v) ==
    IF ZNumber(v) /\ IsInteger(v) /\ Geq(v, lo) /\ Leq(v, hi) THEN Valid(v) ELSE Invalid

\* /^[^\s@]+@[^\s@]+\.[^\s@]+$/ on the characters s
EmailRegex(s) ==
    \E i \in 1..Len(s), j \in 1..Len(s) :
        /\ s[i] = "@" /\ s[j] = "."
        /\ 1 < i /\ i + 1 < j /\ j < Len(s)
        /\ \A k \in (1..Len(s)) \ {i, j} : NotSpaceNotAt(s[k])

\* /^@?[a-zA-Z0-9_]{5,}$/ on the characters s
TgMinLen == 5
\* mutant: the pattern with the "@" required
TgRegex_AtRequired(s) ==
    /\ Len(s) >= 1 /\ s[1] = "@"
    /\ Len(s) - 1 >= TgMinLen
    /\ \A k \in 2..Len(s) : WordChar(s[k])
TgRegex(s) ==
    \E start \in {1, 2} :
        /\ start = 2 => (Len(s) >= 1 /\ s[1] = "@")
        /\ Len(s) - start + 1 >= TgMinLen
        /\ \A k \in start..Len(s) : WordChar(s[k])

\* z.string().regex(re) for the two patterns
ZStringEmailRegex(v) == IF IsString(v) /\ EmailRegex(v.s) THEN Valid(v) ELSE Invalid
ZStringTgRegex(v) == IF IsString(v) /\ TgRegex(v.s) THEN Valid(v) ELSE Invalid

\* mutants: y_mm without .int(), qty with a wrong upper limit, sla_type made optional
y_mm_NoInt(v) == IF ZNumber(v) /\ Geq(v, MinDim) /\ Leq(v, MaxDim) THEN Valid(v) ELSE Invalid
qty_MaxExclusive(v) == ZNumberIntMinMax(MinQty, MaxQty - 1, v)
sla_type_Optional(v) == ZOptional(ZEnum(slaOptions, v), v)
\* the fields of quoteSchema, validation.ts lines 10 to 31
fefco(v) == ZEnum(fefcoOptions, v)
x_mm(v) == ZNumberIntMinMax(MinDim, MaxDim, v)
y_mm(v) == ZNumberIntMinMax(MinDim, MaxDim, v)
z_mm(v) == ZNumberIntMinMax(MinDim, MaxDim, v)
material(v) == ZEnum(materialOptions, v)
print(v) == OrEmptyToUndefined(ZOptional(ZEnum(printOptions, v), v), v)
qty(v) == ZNumberIntMinMax(MinQty, MaxQty, v)
sla_type(v) == ZEnum(slaOptions, v)
company(v) == OrEmptyToUndefined(ZOptional(ZStringMax(MaxCompanyLen, v), v), v)
contact_name(v) == OrEmptyToUndefined(ZOptional(ZStringMax(MaxNameLen, v), v), v)
city(v) == OrEmptyToUndefined(ZOptional(ZStringMax(MaxNameLen, v), v), v)
phone(v) == OrEmptyToUndefined(ZOptional(ZString(v), v), v)
email(v) == OrEmptyToUndefined(ZOptional(ZStringEmailRegex(v), v), v)
tg_username(v) == OrEmptyToUndefined(ZOptional(ZStringTgRegex(v), v), v)

RequiredFields == {"fefco", "x_mm", "y_mm", "z_mm", "material", "qty", "sla_type"}
ContactFields == {"company", "contact_name", "city", "phone", "email", "tg_username"}
Fields == RequiredFields \cup {"print"} \cup ContactFields

\* z.object({...}) applied field by field; a missing key reads as undefined
quoteSchemaFields(o) ==
    [fefco |-> fefco(o.fefco), x_mm |-> x_mm(o.x_mm), y_mm |-> y_mm(o.y_mm),
     z_mm |-> z_mm(o.z_mm), material |-> material(o.material), print |-> print(o.print),
     qty |-> qty(o.qty), sla_type |-> sla_type(o.sla_type), company |-> company(o.company),
     contact_name |-> contact_name(o.contact_name), city |-> city(o.city),
     phone |-> phone(o.phone), email |-> email(o.email),
     tg_username |-> tg_username(o.tg_username)]

\* safeParse of an object schema from the parsed fields: success with the
\* output data, or failure with the paths of the issues
SafeParseObject(r) ==
    [success |-> \A f \in Fields : r[f].ok,
     data |-> [f \in Fields |-> r[f].value],
     issues |-> {f \in Fields : ~r[f].ok}]

\* quoteSchema.safeParse(o)
quoteSchema(o) == SafeParseObject(quoteSchemaFields(o))

\* toPayload, validation.ts: the data as it is
toPayload(data) == data

(***************************************************************************)
(* unnamed/part_001: the second copy of the schema.  Its optional fields   *)
(* have no '' alternative, its email is zod's own email check, and its     *)
(* toPayload turns '' into undefined.                                      *)
(***************************************************************************)
\* zod's email pattern,
\*   /^(?!\.)(?!.*\.\.)([A-Z0-9_'+\-\.]*)[A-Z0-9_+-]@([A-Z0-9][A-Z0-9\-]*\.)+[A-Z]{2,}$/i
EmailLocalEnd(c) == AlphaNum(c) \/ c \in {"_", "+", "-"}
EmailLocalChar(c) == EmailLocalEnd(c) \/ c \in {"'", "."}
EmailDomainChar(c) == AlphaNum(c) \/ c \in {"-", "."}
TldMinLen == 2
ZodEmailRegex(s) ==
    /\ Len(s) >= 1 /\ s[1] # "."
    /\ \A k \in 1..(Len(s) - 1) : ~(s[k] = "." /\ s[k + 1] = ".")
    /\ \E i \in 2..Len(s), j \in 1..Len(s) :
        /\ s[i] = "@" /\ s[j] = "." /\ i + 1 < j
        /\ \A k \in 1..(i - 2) : EmailLocalChar(s[k])
        /\ EmailLocalEnd(s[i - 1])
        /\ \A k \in (i + 1)..j : EmailDomainChar(s[k])
        /\ \A k \in (i + 1)..j : (k = i + 1 \/ s[k - 1] = ".") => AlphaNum(s[k])
        /\ Len(s) - j >= TldMinLen /\ \A k \in (j + 1)..Len(s) : IsLetter(s[k])

\* z.string().email(...)
ZStringZodEmail(v) == IF IsString(v) /\ ZodEmailRegex(v.s) THEN Valid(v) ELSE Invalid

quoteSchemaFields_part001(o) ==
    [fefco |-> ZEnum(fefcoOptions, o.fefco),
     x_mm |-> ZNumberIntMinMax(MinDim, MaxDim, o.x_mm),
     y_mm |-> ZNumberIntMinMax(MinDim, MaxDim, o.y_mm),
     z_mm |-> ZNumberIntMinMax(MinDim, MaxDim, o.z_mm),
     material |-> ZEnum(materialOptions, o.material),
     print |-> ZOptional(ZEnum(printOptions, o.print), o.print),
     qty |-> ZNumberIntMinMax(MinQty, MaxQty, o.qty),
     sla_type |-> ZEnum(slaOptions, o.sla_type),
     company |-> ZOptional(ZStringMax(MaxCompanyLen, o.company), o.company),
     contact_name |-> ZOptional(ZStringMax(MaxNameLen, o.contact_name), o.contact_name),
     city |-> ZOptional(ZStringMax(MaxNameLen, o.city), o.city),
     phone |-> ZOptional(ZString(o.phone), o.phone),
     email |-> ZOptional(ZStringZodEmail(o.email), o.email),
     tg_username |-> ZOptional(ZStringTgRegex(o.tg_username), o.tg_username)]

quoteSchema_part001(o) == SafeParseObject(quoteSchemaFields_part001(o))

\* toPayload, part_001: '' becomes undefined in print and the contact fields
toPayload_part001(data) ==
    [f \in Fields |->
        IF f \in ({"print"} \cup ContactFields) /\ IsEmptyString(data[f])
        THEN Undefined ELSE data[f]]

(***************************************************************************)
(* State.  input and output belong to the direct calls of                  *)
(* quoteSchema.safeParse (validation.test.ts); the rest is the page:       *)
(* the form values react-hook-form holds, the consent checkbox, the        *)
(* form's submitCount, the React state status and result, abortRef, the    *)
(* requests made so far (a request's index is its AbortController),        *)
(* window.dataLayer and the console.                                       *)
(***************************************************************************)
VARIABLES input, output, form, consent, submitCount, status, result, abortRef,
          requests, dataLayer, console

vars == <<input, output, form, consent, submitCount, status, result, abortRef,
          requests, dataLayer, console>>
pageVars == <<form, consent, submitCount, status, result, abortRef, requests,
              dataLayer, console>>

\* text as the sequence of its characters
EmptyText == Str(<< >>)
TextOf(n, c) == Str([k \in 1..n |-> c])

(***************************************************************************)
(* The page after main.tsx has run and App has mounted.                    *)
(***************************************************************************)
\* the values react-hook-form reads from the registered inputs of an empty
\* form: '' from a select or a text input, NaN from an empty number input
\* (valueAsNumber); phone is not registered and has no value until setValue
defaultValues ==
    [fefco |-> Str(""), x_mm |-> NaN, y_mm |-> NaN, z_mm |-> NaN, material |-> Str(""),
     print |-> Str(""), qty |-> NaN, sla_type |-> Str(""), company |-> EmptyText,
     contact_name |-> EmptyText, city |-> EmptyText, phone |-> Undefined,
     email |-> EmptyText, tg_username |-> EmptyText]

PageInit ==
    /\ form = defaultValues
    /\ consent = FALSE
    /\ submitCount = 0
    /\ status = "idle"
    /\ result = Null
    /\ abortRef = 0
    /\ requests = << >>
    /\ dataLayer = << [event |-> "cpq_form_view"] >>
    /\ console = << >>

(***************************************************************************)
(* validation.test.ts: safeParse applied to one object.                    *)
(***************************************************************************)
\* the base object of the tests; a key it does not have reads as undefined
base ==
    [fefco |-> Str("0201"), x_mm |-> Num(300), y_mm |-> Num(200), z_mm |-> Num(150),
     material |-> Str("Mikrogofrokarton Kraft"), print |-> Undefined, qty |-> Num(1000),
     sla_type |-> Str("standart"), company |-> Undefined, contact_name |-> Undefined,
     city |-> Undefined, phone |-> Undefined, email |-> Undefined,
     tg_username |-> Undefined]

NotANumber == {Undefined, Null, NaN, Str("300")}
NumbersAround(lo, hi) ==
    {Num(n) : n \in {0 - lo, 0, lo - 1, lo, lo + 1, hi - 1, hi, hi + 1}}
        \cup {NumAndHalf(n) : n \in {lo - 1, lo, hi - 1, hi}}
DimInputs == NotANumber \cup NumbersAround(MinDim, MaxDim)
QtyInputs == NotANumber \cup NumbersAround(MinQty, MaxQty)
EnumInputs(options) == {Undefined, Null, Num(1), Str(""), Str("5+5")} \cup {Str(o) : o \in options}

StringsUpTo(alphabet, n) == UNION {[1..k -> alphabet] : k \in 0..n}
EmailInputs ==
    {Undefined, Null, Num(1)}
        \cup {Str(s) : s \in StringsUpTo({"a", "@", ".", " "}, MaxEmailLen)}
        \cup {Str(<<"b", "a", "d">>), Str(<<"a", "@", "b", ".", "c">>),
              Str(<<"a", "@", "b", ".", "c", "o">>), Str(<<"a", ".", "b", "@", "c", ".", "d", "e">>),
              Str(<<"t", "e", "s", "t", "@", "e", "x", "a", "m", "p", "l", "e", ".", "c", "o", "m">>)}
TgInputs ==
    {Undefined, Null, Num(1)}
        \cup {Str(s) : s \in StringsUpTo({"a", "@", "_", "-"}, MaxTgLen)}
        \cup {Str(<<"@", "a", "b">>), Str(<<"v", "a", "l", "i", "d", "_", "1", "2", "3">>),
              Str(<<"@", "v", "a", "l", "i", "d", "_", "1", "2", "3">>),
              Str(<<"@", "c", "l", "i", "e", "l", "t">>)}
TextInputs(max) == {Undefined, Null, EmptyText, TextOf(1, "a"), TextOf(max, "a"), TextOf(max + 1, "a")}

NotParsed == [module |-> "none"]

\* the object handed to safeParse: the base with the fields of one group replaced
SchemaInit ==
    /\ \/ \E x \in DimInputs, y \in DimInputs, z \in DimInputs :
            input = [base EXCEPT !.x_mm = x, !.y_mm = y, !.z_mm = z]
       \/ \E q \in QtyInputs : input = [base EXCEPT !.qty = q]
       \/ \E f \in EnumInputs(fefcoOptions), m \in EnumInputs(materialOptions),
             t \in EnumInputs(slaOptions), p \in EnumInputs(printOptions) :
            input = [base EXCEPT !.fefco = f, !.material = m, !.sla_type = t, !.print = p]
       \/ \E e \in EmailInputs : input = [base EXCEPT !.email = e]
       \/ \E u \in TgInputs : input = [base EXCEPT !.tg_username = u]
       \/ \E c \in TextInputs(MaxCompanyLen), n \in TextInputs(MaxNameLen),
             y \in TextInputs(MaxNameLen), ph \in TextInputs(MaxNameLen) :
            input = [base EXCEPT !.company = c, !.contact_name = n, !.city = y, !.phone = ph]
    /\ output = NotParsed
    /\ PageInit

\* quoteSchema.safeParse(input) of validation.ts, and toPayload of its data
SafeParse ==
    /\ output = NotParsed
    /\ LET r == quoteSchema(input) IN
        output' = [module |-> "validation.ts", success |-> r.success, data |-> r.data,
                   issues |-> r.issues,
                   payload |-> IF r.success THEN toPayload(r.data) ELSE r.data]
    /\ UNCHANGED <<input, pageVars>>

\* the same through the copy of the schema in part_001
SafeParse_part001 ==
    /\ output = NotParsed
    /\ LET r == quoteSchema_part001(input) IN
        output' = [module |-> "part_001", success |-> r.success, data |-> r.data,
                   issues |-> r.issues,
                   payload |-> IF r.success THEN toPayload_part001(r.data) ELSE r.data]
    /\ UNCHANGED <<input, pageVars>>

SchemaNext == SafeParse \/ SafeParse_part001

SpecSchema == SchemaInit /\ [][SchemaNext]_vars

(***************************************************************************)
(* App.tsx: the page.                                                      *)
(***************************************************************************)
\* what the user puts into a field on its own: a select offers '' and its
\* options, a number input gives the number typed, a text input gives its text.
\* The other fields change with fillBase only.
FieldInputs(f) ==
    CASE f = "fefco" -> {Str(""), Str("0201")}
      [] f = "x_mm" -> {Num(MinDim - 1), Num(300)}
      [] f = "email" -> {EmptyText, Str(<<"b", "a", "d">>), Str(<<"a", "@", "b", ".", "c">>)}
      [] OTHER -> {}

\* the requests that have not settled; an aborted one rejects in a microtask,
\* before any other event is handled
Pending == {i \in DOMAIN requests : requests[i].state = "pending"}
Aborted == {i \in DOMAIN requests : requests[i].state = "aborted"}
NoMicrotask == Aborted = {}

\* the user changes one field
Change(f, v) ==
    /\ NoMicrotask
    /\ v # form[f]
    /\ form' = [form EXCEPT ![f] = v]
    /\ UNCHANGED <<input, output, consent, submitCount, status, result, abortRef,
                   requests, dataLayer, console>>

\* fillBase of the integration tests: the user fills every required field with
\* the values of the base and clicks the consent checkbox
fillBase ==
    /\ NoMicrotask
    /\ form' = [f \in Fields |-> IF f \in RequiredFields THEN base[f] ELSE form[f]]
    /\ consent' = ~consent
    /\ UNCHANGED <<input, output, submitCount, status, result, abortRef, requests,
                   dataLayer, console>>

\* the user clicks the consent checkbox
ToggleConsent ==
    /\ NoMicrotask
    /\ consent' = ~consent
    /\ UNCHANGED <<input, output, form, submitCount, status, result, abortRef,
                   requests, dataLayer, console>>

\* mutant: pushEvent that drops the event
pushEvent_Drop(layer, event) == layer

\* pushEvent
pushEvent(layer, event) == Append(layer, event)

\* abortRef.current?.abort(): the request of the current controller, if it has
\* not settled, is aborted
abort(reqs, ref) ==
    [i \in DOMAIN reqs |->
        IF i = ref /\ reqs[i].state = "pending"
        THEN [reqs[i] EXCEPT !.state = "aborted"] ELSE reqs[i]]

\* the callback given to handleSubmit, up to the await of postQuote: postQuote
\* logs the payload and starts the fetch
onSubmit(values) ==
    LET payload == toPayload(values) IN
    /\ console' = console \o << [msg |-> "onSubmit values", arg |-> values],
                                [msg |-> "postQuote called", arg |-> payload] >>
    /\ dataLayer' = pushEvent(dataLayer, [event |-> "cpq_form_submit"])
    /\ status' = "loading"
    /\ result' = Null
    /\ requests' = Append(abort(requests, abortRef), [payload |-> payload, state |-> "pending"])
    /\ abortRef' = Len(requests) + 1

\* mutant: handleSubmit without a resolver, the callback runs with the raw values
Submit_NoResolver ==
    /\ NoMicrotask
    /\ submitCount < MaxSubmits
    /\ submitCount' = submitCount + 1
    /\ onSubmit(form)
    /\ UNCHANGED <<input, output, form, consent>>

\* handleSubmit with zodResolver(quoteSchema): the callback runs with the parsed
\* data when the form values pass the schema, and not at all when they do not
\* (the required attribute of the consent checkbox is not looked at: noValidate)
Submit ==
    /\ NoMicrotask
    /\ submitCount < MaxSubmits
    /\ submitCount' = submitCount + 1
    /\ LET r == quoteSchema(form) IN
        IF r.success
        THEN onSubmit(r.data)
        ELSE UNCHANGED <<status, result, abortRef, requests, dataLayer, console>>
    /\ UNCHANGED <<input, output, form, consent>>

\* what the server, or the network, does with a request
OkBodies == {[ok |-> TRUE, pdf_url |-> "https://x/pdf/web-123.pdf", lead_id |-> "web-123"]}
\* the error texts of the integration tests: "Nevernye dannye", "Vremennaya oshibka PDF"
ErrorBodies == {[ok |-> FALSE, error |-> e] : e \in {"Nevernye dannye", "Vremennaya oshibka PDF"}}
ErrorStatuses == {400, 404, 502, 500}
Outcomes ==
    {[kind |-> "json", status |-> 200, body |-> b] : b \in OkBodies}
    \cup {[kind |-> "json", status |-> c, body |-> b] : c \in ErrorStatuses, b \in ErrorBodies}
    \cup {[kind |-> "text", status |-> 502, text |-> t, statusText |-> "Bad Gateway"] :
            t \in {"", "<html>502</html>"}}
    \cup {[kind |-> "reject", err |-> "TypeError: Failed to fetch"]}
AbortOutcome == [kind |-> "reject", err |-> "AbortError: The operation was aborted."]

\* mutant: postQuote that reads the body of a 2xx response only
postQuote_OkOnly(o) ==
    CASE o.kind = "reject" -> [rejected |-> TRUE, err |-> o.err]
      [] o.kind = "json" /\ o.status = 200 -> [rejected |-> FALSE, value |-> o.body]
      [] OTHER -> [rejected |-> FALSE, value |-> [ok |-> FALSE, error |-> "Request failed"]]

\* postQuote after the fetch has settled: the promise it returns
postQuote(o) ==
    CASE o.kind = "reject" -> [rejected |-> TRUE, err |-> o.err]
      [] o.kind = "text" ->
            [rejected |-> FALSE,
             value |-> [ok |-> FALSE,
                        error |-> "Unexpected response: "
                                    \o (IF o.text # "" THEN o.text ELSE o.statusText)]]
      [] o.kind = "json" -> [rejected |-> FALSE, value |-> o.body]

\* .catch((err) => ({ ok: false, error: String(err) }))
catch(p) == IF p.rejected THEN [ok |-> FALSE, error |-> p.err] ELSE p.value

\* mutant: the ok branch without setResult(res)
afterAwait_NoSetResult(res) ==
    IF res.ok
    THEN /\ dataLayer' = pushEvent(dataLayer, [event |-> "cpq_api_ok", lead_id |-> res.lead_id])
         /\ result' = result
         /\ status' = "success"
    ELSE /\ dataLayer' = pushEvent(dataLayer, [event |-> "cpq_api_error", message |-> res.error])
         /\ result' = res
         /\ status' = "error"

\* the rest of the callback, after the await
afterAwait(res) ==
    IF res.ok
    THEN /\ dataLayer' = pushEvent(dataLayer, [event |-> "cpq_api_ok", lead_id |-> res.lead_id])
         /\ result' = res
         /\ status' = "success"
    ELSE /\ dataLayer' = pushEvent(dataLayer, [event |-> "cpq_api_error", message |-> res.error])
         /\ result' = res
         /\ status' = "error"

\* request i settles with outcome o
Settle(i, o) ==
    /\ requests' = [requests EXCEPT ![i].state = "settled"]
    /\ afterAwait(catch(postQuote(o)))
    /\ UNCHANGED <<input, output, form, consent, submitCount, abortRef, console>>

\* the server answers a request in flight, or the request fails
Respond(i, o) ==
    /\ NoMicrotask
    /\ i \in Pending
    /\ Settle(i, o)

\* the fetch of an aborted request rejects
RejectAborted(i) ==
    /\ i \in Aborted
    /\ Settle(i, AbortOutcome)

\* the button shown in status 'error'
RetryShown == status = "error"
\* mutant: the button's handler without setResult(null)
Retry_NoReset ==
    /\ NoMicrotask
    /\ RetryShown
    /\ status' = "idle"
    /\ UNCHANGED <<input, output, form, consent, submitCount, result, abortRef, requests,
                   dataLayer, console>>

\* the handler of the button
Retry ==
    /\ NoMicrotask
    /\ RetryShown
    /\ status' = "idle"
    /\ result' = Null
    /\ UNCHANGED <<input, output, form, consent, submitCount, abortRef, requests,
                   dataLayer, console>>

\* StatusBar: the text of the status line
message == IF result # Null /\ ~result.ok THEN result.error ELSE ""
StatusBarText ==
    IF status = "loading" THEN "Otpravlyaem zapros..."
    ELSE IF status = "success" THEN "Gotovo. PDF otpravlen v Telegram."
    ELSE message

\* ResultCard: shown for an ok result, with the link and the lead id
ResultCardShown == result # Null /\ result.ok
ResultCard == [href |-> result.pdf_url, leadId |-> result.lead_id]

PageNext ==
    \/ \E f \in Fields : \E v \in FieldInputs(f) : Change(f, v)
    \/ fillBase
    \/ ToggleConsent
    \/ Submit
    \/ \E i \in DOMAIN requests : \E o \in Outcomes : Respond(i, o)
    \/ \E i \in DOMAIN requests : RejectAborted(i)
    \/ Retry

Init == input = base /\ output = NotParsed /\ PageInit
Next == PageNext
Spec == Init /\ [][Next]_vars

\* the page with a network that settles every fetch: a request in flight gets
\* its response or fails, and the fetch of an aborted request rejects
SpecLive ==
    /\ Spec
    /\ WF_vars(\E i \in DOMAIN requests : \E o \in Outcomes : Respond(i, o))
    /\ WF_vars(\E i \in DOMAIN requests : RejectAborted(i))

(***************************************************************************)
(* Properties of quoteSchema, checked under SpecSchema.                    *)
(***************************************************************************)
Parsed == output.module # "none"
\* every field outside fs has the value of the tests' valid base
OthersAreBase(fs) == \A f \in Fields \ fs : input[f] = base[f]
IntegerIn(v, lo, hi) == v.t = "number" /\ v.half = 0 /\ v.floor \in lo..hi
Dims == {"x_mm", "y_mm", "z_mm"}

\* C1: with every other field valid, safeParse succeeds exactly when each of
\* x_mm, y_mm and z_mm is an integer from 20 to 1200; so 20 and 1200 pass, and
\* 19, 1201, NaN and a non-integer fail.
C1_DimensionBounds ==
    (Parsed /\ OthersAreBase(Dims)) =>
        (output.success <=> \A d \in Dims : IntegerIn(input[d], 20, 1200))

\* C1 witness: both ends of the range were accepted by validation.ts
C1_Witness ==
    /\ output.module = "validation.ts" /\ output.success
    /\ input.x_mm = Num(20) /\ input.y_mm = Num(1200) /\ input.z_mm = Num(1200)

\* C2: with every other field valid, safeParse succeeds exactly when qty is an
\* integer from 1 to 100000.
C2_QtyBounds ==
    (Parsed /\ OthersAreBase({"qty"})) =>
        (output.success <=> IntegerIn(input.qty, 1, 100000))

\* C2 witness: the largest quantity was accepted by validation.ts
C2_Witness ==
    output.module = "validation.ts" /\ output.success /\ input.qty = Num(100000)

\* C6: print is optional: with every other field valid, safeParse succeeds when
\* print is undefined, when it is '' and when it is one of printOptions, and
\* fails for any other print value.
C6_PrintOptional ==
    (Parsed /\ OthersAreBase({"print"})) =>
        (output.success <=>
            \/ input.print = Undefined
            \/ input.print = Str("")
            \/ \E o \in printOptions : input.print = Str(o))

\* the same for the schema of validation.ts alone
C6_PrintOptional_validation ==
    output.module = "validation.ts" => C6_PrintOptional

\* the shape local@domain.tld: one "@", no white space, a non-empty local part,
\* and after the "@" a "." with something before it and something after it
EmailShape(s) ==
    LET ats == {k \in 1..Len(s) : s[k] = "@"} IN
    /\ Cardinality(ats) = 1
    /\ \A k \in 1..Len(s) : s[k] # " "
    /\ \E a \in ats : a > 1 /\ \E d \in (a + 2)..(Len(s) - 1) : s[d] = "."

\* C7: with every other field valid, an absent email is accepted, a present
\* email that has not the shape local@domain.tld is rejected, and one that has
\* it is accepted, also with one-character parts.  (Stated for non-empty
\* strings: the empty string is the subject of C16.)
C7_EmailShape ==
    (Parsed /\ OthersAreBase({"email"})) =>
        /\ input.email = Undefined => output.success
        /\ (IsString(input.email) /\ ~IsEmptyString(input.email)) =>
                (output.success <=> EmailShape(input.email.s))
        /\ (input.email # Undefined /\ ~IsString(input.email)) => ~output.success

\* the same for the schema of validation.ts alone
C7_EmailShape_validation ==
    output.module = "validation.ts" => C7_EmailShape

\* an optional leading "@", then at least 5 characters, all letters, digits or "_"
TgShape(s) ==
    LET name == IF Len(s) > 0 /\ s[1] = "@" THEN Tail(s) ELSE s IN
    Len(name) >= 5 /\ \A k \in 1..Len(name) : WordChar(name[k])

\* C8 as stated: a present tg_username, the empty string included, is accepted
\* exactly when it has the shape.
C8_TgUsername_AnyPresent ==
    (Parsed /\ OthersAreBase({"tg_username"}) /\ IsString(input.tg_username)) =>
        (output.success <=> TgShape(input.tg_username.s))

\* C8 amended: a present, non-empty tg_username is accepted exactly when it is an
\* optional leading "@" followed by at least 5 letters, digits or underscores.
C8_TgUsername ==
    (Parsed /\ OthersAreBase({"tg_username"}) /\ IsString(input.tg_username)
        /\ ~IsEmptyString(input.tg_username)) =>
        (output.success <=> TgShape(input.tg_username.s))

\* C8 witness: '@ab' was rejected by validation.ts
C8_Witness ==
    /\ output.module = "validation.ts" /\ ~output.success
    /\ input.tg_username = Str(<<"@", "a", "b">>)

\* C9: a request with a required field missing is rejected, whatever else it
\* holds, and the base, which has neither print nor any contact field, is accepted.
C9_RequiredFields ==
    Parsed =>
        /\ (\E f \in RequiredFields : input[f] = Undefined) => ~output.success
        /\ input = base => output.success

\* C9 witness: the base without fefco was rejected by validation.ts, for fefco alone
C9_Witness ==
    /\ output.module = "validation.ts" /\ ~output.success
    /\ input = [base EXCEPT !.fefco = Undefined] /\ output.issues = {"fefco"}

(***************************************************************************)
(* Properties of the page, checked under Spec.                             *)
(***************************************************************************)
PayloadValid(p) ==
    /\ IsString(p.fefco) /\ p.fefco.s \in fefcoOptions
    /\ IsString(p.material) /\ p.material.s \in materialOptions
    /\ IsString(p.sla_type) /\ p.sla_type.s \in slaOptions
    /\ \A d \in Dims : IntegerIn(p[d], 20, 1200)
    /\ IntegerIn(p.qty, 1, 100000)
SubmitStep == submitCount' = submitCount + 1
RequestSent == Len(requests') = Len(requests) + 1

\* C3: every payload handed to postQuote has fefco, material and sla_type from
\* their lists, integer dimensions from 20 to 1200 and an integer qty from 1 to
\* 100000; a request is sent by a submit only, with the data quoteSchema gave for
\* the form values it accepted; a submit of values quoteSchema rejects sends
\* nothing and leaves status and result as they were.
C3_OnlyValidPayloads ==
    /\ [](\A i \in DOMAIN requests : PayloadValid(requests[i].payload))
    /\ [][/\ RequestSent =>
                /\ SubmitStep /\ quoteSchema(form).success
                /\ requests'[Len(requests')].payload = quoteSchema(form).data
          /\ (SubmitStep /\ ~quoteSchema(form).success) =>
                (requests' = requests /\ status' = status /\ result' = result)]_vars

\* C3 witness: a request is in flight, and a submit of a form with x_mm = 19 has
\* been turned down
C3_Witness ==
    /\ submitCount = 2 /\ Len(requests) = 1 /\ requests[1].state = "pending"
    /\ status = "loading" /\ form.x_mm = Num(19)

\* C4: when the server answers a request in flight with the JSON body
\* {ok: true, pdf_url, lead_id}, the page is in status 'success', the status line
\* reads 'Gotovo...', and the download link is shown with the pdf_url as its
\* href, beside the lead_id.
C4_SuccessShown ==
    [][\A i \in DOMAIN requests : \A o \in Outcomes :
        (o.kind = "json" /\ o.body.ok /\ Respond(i, o)) =>
            /\ status' = "success"
            /\ StatusBarText' = "Gotovo. PDF otpravlen v Telegram."
            /\ ResultCardShown'
            /\ ResultCard' = [href |-> o.body.pdf_url, leadId |-> o.body.lead_id]]_vars

\* C4 witness: the page shows the link of the answer
C4_Witness ==
    /\ status = "success" /\ ResultCardShown
    /\ ResultCard.href = "https://x/pdf/web-123.pdf" /\ ResultCard.leadId = "web-123"

\* C5: when the server answers a request in flight with the JSON body
\* {ok: false, error: E} under status 400, 404, 502 or 500, the page is in status
\* 'error', the status line reads E, and no download link is shown.
C5_ErrorShown ==
    [][\A i \in DOMAIN requests : \A c \in {400, 404, 502, 500} : \A b \in ErrorBodies :
        Respond(i, [kind |-> "json", status |-> c, body |-> b]) =>
            /\ status' = "error"
            /\ StatusBarText' = b.error
            /\ ~ResultCardShown']_vars

\* C5 witness: the page shows the error text of the answer, and no link
C5_Witness ==
    /\ status = "error" /\ StatusBarText = "Vremennaya oshibka PDF" /\ ~ResultCardShown
    /\ \A i \in DOMAIN requests : requests[i].state = "settled"

\* C10: no record of the console holds the value of a contact field unmasked.
\* Nothing in the page masks a value, so a record is clean only if it holds no
\* text in any contact field.
C10_NoContactValueInLogs ==
    \A k \in DOMAIN console : \A f \in ContactFields :
        ~(IsString(console[k].arg[f]) /\ ~IsEmptyString(console[k].arg[f]))

(***************************************************************************)
(* Error texts, analytics, abort, consent and the payload's empty fields.  *)
(***************************************************************************)
\* the texts that come from upstream as they are: the text of an exception the
\* fetch throws and the body of a response that is not JSON
RawUpstreamTexts ==
    {o.err : o \in {x \in Outcomes \cup {AbortOutcome} : x.kind = "reject"}}
        \cup {o.text : o \in {x \in Outcomes : x.kind = "text" /\ x.text # ""}}
\* msg is raw, or raw behind the prefix postQuote puts before a response text
Includes(msg, raw) == msg = raw \/ msg = "Unexpected response: " \o raw

\* C11: the message the status bar shows in status 'error' includes no raw
\* upstream text: neither the text of a thrown exception nor the body of a
\* response.
C11_NoRawUpstreamText ==
    status = "error" => \A raw \in RawUpstreamTexts : ~Includes(StatusBarText, raw)

\* C13: while the request of the newest submission is in flight, status is
\* 'loading' and result is null, whatever became of an earlier request.
C13_EarlierOutcomeNotShown ==
    (abortRef \in Pending) => (status = "loading" /\ result = Null)

\* C15: a step that sends a request is taken with the consent checkbox checked.
C15_ConsentRequired ==
    [][RequestSent => consent]_vars

\* the optional fields of the form
OptionalFields == Fields \ RequiredFields

\* C16: the payload of a request carries no optional field as the empty string.
C16_EmptyNormalised ==
    \A i \in DOMAIN requests : \A f \in OptionalFields :
        ~IsEmptyString(requests[i].payload[f])

\* the events of dataLayer by kind, and the requests that have settled
SubmitEvents == {k \in DOMAIN dataLayer : dataLayer[k].event = "cpq_form_submit"}
OutcomeEvents == {k \in DOMAIN dataLayer : dataLayer[k].event \in {"cpq_api_ok", "cpq_api_error"}}
Settled == {i \in DOMAIN requests : requests[i].state = "settled"}
RequestSettles == Cardinality(Settled') = Cardinality(Settled) + 1

\* C12: a step that sends a request appends exactly one cpq_form_submit; there
\* are as many cpq_form_submit events as requests and as many outcome events as
\* settled requests, so no outcome event comes without a submit before it; a
\* step that settles a request appends exactly one outcome event, cpq_api_ok
\* with the lead_id of the response when the result is ok and cpq_api_error
\* with the error message when it is not; every request sent settles.
C12_AnalyticsProtocol ==
    /\ [][RequestSent => dataLayer' = Append(dataLayer, [event |-> "cpq_form_submit"])]_vars
    /\ [](/\ Cardinality(SubmitEvents) = Len(requests)
          /\ Cardinality(OutcomeEvents) = Cardinality(Settled))
    /\ [][RequestSettles =>
            dataLayer' = Append(dataLayer,
                IF result'.ok
                THEN [event |-> "cpq_api_ok", lead_id |-> result'.lead_id]
                ELSE [event |-> "cpq_api_error", message |-> result'.error])]_vars
    /\ [][\A i \in DOMAIN requests : \A o \in Outcomes :
            (Respond(i, o) /\ o.kind = "json") =>
                dataLayer'[Len(dataLayer')] =
                    IF o.body.ok
                    THEN [event |-> "cpq_api_ok", lead_id |-> o.body.lead_id]
                    ELSE [event |-> "cpq_api_error", message |-> o.body.error]]_vars
    /\ \A i \in 1..MaxSubmits : [](i \in DOMAIN requests => <>(i \in Settled))

\* C12 witness: one submission answered ok left view, submit and ok in dataLayer
C12_Witness ==
    dataLayer = << [event |-> "cpq_form_view"], [event |-> "cpq_form_submit"],
                   [event |-> "cpq_api_ok", lead_id |-> "web-123"] >>

\* C14: status is 'success' exactly when result is a response with ok true;
\* status 'error' comes with a result with ok false; status 'idle' or 'loading'
\* comes with result null; the retry button is shown in status 'error' only, and
\* pressing it gives status 'idle' and result null and sends no request.
C14_StatusResultConsistent ==
    /\ [](/\ status = "success" <=> (result # Null /\ result.ok)
          /\ status = "error" => (result # Null /\ ~result.ok)
          /\ status \in {"idle", "loading"} => result = Null
          /\ RetryShown => status = "error")
    /\ [][Retry => (status' = "idle" /\ result' = Null /\ ~RequestSent
                    /\ requests' = requests)]_vars

\* C14 witness: the retry button has been pressed after a failed request
C14_Witness ==
    /\ status = "idle" /\ result = Null
    /\ requests # << >> /\ \A i \in DOMAIN requests : requests[i].state = "settled"

====
